---- MODULE Spec2Model ----
(***************************************************************************)
(* Model of the allcheckspassed action: the Checks class (fetch, filter,   *)
(* verdict, polling loop, report) and the entry point that drives it.      *)
(***************************************************************************)
EXTENDS Integers, Sequences, FiniteSets, TLC

\* ------------------------------------------------------------------ bounds
\* longest raw check list a fetch returns
MaxChecks == 2
\* largest configured retry limit
MaxRetries == 3
\* longest check list handed to the verdict function in SpecVerdict
MaxVerdictLen == 2
\* longest raw check list handed to filterChecks in SpecFilter
MaxFilterChecks == 3
\* longest include or exclude list in SpecFilter
MaxSelectors == 2

\* --------------------------------------------------------------- constants
\* checksConstants.GitHubActionsBotId: app id of GitHub Actions
GitHubActionsBotId == 15368
\* app id of some other integration
OtherAppId == 7
\* selector app id meaning "any app"
AnyAppId == -1
\* the name extractOwnCheckNameFromWorkflow resolves to
OwnCheckName == "allchecks"

\* checkStatus values
IN_PROGRESS == "in_progress"
QUEUED == "queued"
WAITING == "waiting"
COMPLETED == "completed"
REQUESTED == "requested"
PENDING == "pending"
Statuses == {QUEUED, IN_PROGRESS, WAITING, COMPLETED, REQUESTED, PENDING}

\* checkConclusion values; NoConclusion is an absent (null) conclusion
NoConclusion == "null"
SUCCESS == "success"
FAILURE == "failure"
NEUTRAL == "neutral"
CANCELLED == "cancelled"
SKIPPED == "skipped"
TIMED_OUT == "timed_out"
ACTION_REQUIRED == "action_required"
STALE == "stale"
Conclusions ==
    {NoConclusion, SUCCESS, FAILURE, NEUTRAL, CANCELLED,
     SKIPPED, TIMED_OUT, ACTION_REQUIRED, STALE}

\* ------------------------------------------------------------ environment
\* The check runs recorded against the commit: a run's id (its index here)
\* fixes its name and creating app for the whole run of the action.
CheckRuns ==
    << [name |-> OwnCheckName, app_id |-> GitHubActionsBotId],
       [name |-> OwnCheckName, app_id |-> GitHubActionsBotId],
       [name |-> "build",      app_id |-> OtherAppId] >>

\* (status, conclusion) pairs a recorded check run moves through while the
\* action polls: still running, then completed successfully
CheckStates ==
    { [status |-> IN_PROGRESS, conclusion |-> NoConclusion],
      [status |-> COMPLETED,   conclusion |-> SUCCESS] }

MkCheck(i, st) ==
    [id |-> i, name |-> CheckRuns[i].name, app_id |-> CheckRuns[i].app_id,
     status |-> st.status, conclusion |-> st.conclusion]

Checks == { MkCheck(i, st) : i \in 1..Len(CheckRuns), st \in CheckStates }

\* the API lists each recorded run once, in the order of the runs' ids
AscendingIds(s) == \A i, j \in 1..Len(s) : i < j => s[i].id < s[j].id

\* what getAllChecks can return
RawLists ==
    { s \in UNION { [1..n -> Checks] : n \in 0..MaxChecks } : AscendingIds(s) }

\* user-supplied selector lists (checks_include / checks_exclude)
SelBuild == [name |-> "build", app_id |-> OtherAppId]
SelDeploy == [name |-> "deploy", app_id |-> AnyAppId]
IncludeLists == { <<>>, <<SelBuild>>, <<SelDeploy, SelDeploy>> }
ExcludeLists == { <<>>, <<SelBuild>> }

\* configured retry limits: the positive ones, and zero and a negative one
RetryLimits == {-1, 0} \cup (1..MaxRetries)

\* ------------------------------------------------------------------ state
VARIABLES
    \* inputs (constructor, part_000:44-57)
    checksInclude, checksExclude, treatSkippedAsPassed, treatNeutralAsPassed,
    failOnMissingChecks, poll, retries,
    \* whether extractOwnCheckNameFromWorkflow can resolve the own check name
    canResolve,
    \* Checks fields
    allChecks, filteredChecks, allChecksPassed, missingChecks, ownCheck,
    \* locals of Checks.run
    iteration, allChecksPass, missingChecksRun, filteredChecksExcludingOwnCheck,
    \* control position and what the run did so far
    pc, error, fetches, lookups, sleeps, verdicts, failed, warned,
    \* the timer main starts for the startup delay: idle, pending or elapsed
    delayTimer

inputs ==
    << checksInclude, checksExclude, treatSkippedAsPassed, treatNeutralAsPassed,
       failOnMissingChecks, poll, retries, canResolve >>
fields == << allChecks, filteredChecks, allChecksPassed, missingChecks, ownCheck >>
locals == << iteration, allChecksPass, missingChecksRun, filteredChecksExcludingOwnCheck >>
observed == << error, fetches, lookups, sleeps, verdicts, failed, warned >>
vars == << inputs, fields, locals, pc, observed, delayTimer >>

\* ---------------------------------------------------------- checksFilters
\* a check matches a selector by name and by app id (or any app)
Matches(check, sel) ==
    /\ check.name = sel.name
    /\ (sel.app_id = AnyAppId \/ check.app_id = sel.app_id)

\* true when at least one of the two inputs is empty
checkOneOfTheChecksInputIsEmpty(include, exclude) ==
    Len(include) = 0 \/ Len(exclude) = 0

RECURSIVE MatchedBySelectors(_, _)
MatchedBySelectors(checks, sels) ==
    IF sels = <<>> THEN <<>>
    ELSE LET Hit(c) == Matches(c, Head(sels))
         IN  SelectSeq(checks, Hit) \o MatchedBySelectors(checks, Tail(sels))

filterChecksWithMatchingNameAndAppId(checks, sels) ==
    LET Unmatched(sel) == \A i \in 1..Len(checks) : ~Matches(checks[i], sel)
    IN  [ filteredChecks |-> MatchedBySelectors(checks, sels),
          missingChecks  |-> SelectSeq(sels, Unmatched) ]

removeChecksWithMatchingNameAndAppId(checks, sels) ==
    LET Kept(c) == \A i \in 1..Len(sels) : ~Matches(c, sels[i])
    IN  SelectSeq(checks, Kept)

\* keeps the first entry of every check identity
RECURSIVE removeDuplicateChecksEntriesFromSelf(_)
removeDuplicateChecksEntriesFromSelf(checks) ==
    IF checks = <<>> THEN <<>>
    ELSE LET n == Len(checks)
             front == removeDuplicateChecksEntriesFromSelf(SubSeq(checks, 1, n - 1))
             seen == \E i \in 1..Len(front) : front[i].id = checks[n].id
         IN  IF seen THEN front ELSE Append(front, checks[n])

\* keeps the first entry of every (name, app_id) selector
RECURSIVE removeDuplicateEntriesChecksInputsFromSelf(_)
removeDuplicateEntriesChecksInputsFromSelf(sels) ==
    IF sels = <<>> THEN <<>>
    ELSE LET n == Len(sels)
             front == removeDuplicateEntriesChecksInputsFromSelf(SubSeq(sels, 1, n - 1))
             seen == \E i \in 1..Len(front) :
                         /\ front[i].name = sels[n].name
                         /\ front[i].app_id = sels[n].app_id
         IN  IF seen THEN front ELSE Append(front, sels[n])

\* ------------------------------------------------- Checks.determineChecksFailure
\* variant: skipped always counts as failing, whatever the flag
failureConclusionsSkippedAlways(skippedAsPassed, neutralAsPassed) ==
    {FAILURE, TIMED_OUT, CANCELLED, ACTION_REQUIRED, STALE, SKIPPED}
        \cup (IF ~neutralAsPassed THEN {NEUTRAL} ELSE {})

failureConclusions(skippedAsPassed, neutralAsPassed) ==
    {FAILURE, TIMED_OUT, CANCELLED, ACTION_REQUIRED, STALE}
        \cup (IF ~skippedAsPassed THEN {SKIPPED} ELSE {})
        \cup (IF ~neutralAsPassed THEN {NEUTRAL} ELSE {})

\* variant: an empty list of checks does not pass
determineChecksFailureEmptyFails(checks, skippedAsPassed, neutralAsPassed) ==
    LET inProgressQueuedWaiting == {IN_PROGRESS, QUEUED, WAITING}
        Unsettled(c) == c.status \in inProgressQueuedWaiting
        anyInProgressQueuedWaiting == SelectSeq(checks, Unsettled)
        Failing(c) == c.conclusion \in failureConclusions(skippedAsPassed, neutralAsPassed)
        failingChecks == SelectSeq(checks, Failing)
    IN  IF Len(checks) = 0 THEN FALSE
        ELSE IF Len(anyInProgressQueuedWaiting) > 0 THEN FALSE
        ELSE IF Len(failingChecks) > 0 THEN FALSE
        ELSE TRUE

determineChecksFailure(checks, skippedAsPassed, neutralAsPassed) ==
    LET inProgressQueuedWaiting == {IN_PROGRESS, QUEUED, WAITING}
        Unsettled(c) == c.status \in inProgressQueuedWaiting
        anyInProgressQueuedWaiting == SelectSeq(checks, Unsettled)
        Failing(c) == c.conclusion \in failureConclusions(skippedAsPassed, neutralAsPassed)
        failingChecks == SelectSeq(checks, Failing)
    IN  IF Len(anyInProgressQueuedWaiting) > 0 THEN FALSE
        ELSE IF Len(failingChecks) > 0 THEN FALSE
        ELSE TRUE

\* ------------------------------------------------------ Checks.filterChecks
\* the own check after the lookup at the top of filterChecks
ownCheckLookup(cached, checks) ==
    LET gitHubActionsBotId == GitHubActionsBotId
        \* Array.find: the first match, or undefined (the empty list)
        hits == { i \in 1..Len(checks) :
                    /\ checks[i].name = OwnCheckName
                    /\ checks[i].app_id = gitHubActionsBotId }
        found == IF hits = {} THEN <<>>
                 ELSE << checks[CHOOSE i \in hits : \A j \in hits : i <= j] >>
    IN  IF cached = <<>> THEN found ELSE cached

\* variant: no branch for both inputs being empty, filteredChecks stays as it was
filterChecksFilteredNoDefault(checks, include, exclude, prev) ==
    IF Len(include) > 0 /\ Len(exclude) = 0
    THEN removeDuplicateChecksEntriesFromSelf(
             filterChecksWithMatchingNameAndAppId(checks, include).filteredChecks)
    ELSE IF Len(exclude) > 0 /\ Len(include) = 0
    THEN removeDuplicateChecksEntriesFromSelf(
             removeChecksWithMatchingNameAndAppId(checks, exclude))
    ELSE prev

\* variant: the exclude branch keeps the matching checks instead of removing them
filterChecksFilteredExcludeKeeps(checks, include, exclude, prev) ==
    IF Len(include) = 0 /\ Len(exclude) = 0 THEN checks
    ELSE IF Len(include) > 0 /\ Len(exclude) = 0
    THEN removeDuplicateChecksEntriesFromSelf(
             filterChecksWithMatchingNameAndAppId(checks, include).filteredChecks)
    ELSE IF Len(exclude) > 0 /\ Len(include) = 0
    THEN removeDuplicateChecksEntriesFromSelf(
             filterChecksWithMatchingNameAndAppId(checks, exclude).filteredChecks)
    ELSE prev

\* filteredChecks after filterChecks returns normally
filterChecksFiltered(checks, include, exclude, prev) ==
    IF Len(include) = 0 /\ Len(exclude) = 0 THEN checks
    ELSE IF Len(include) > 0 /\ Len(exclude) = 0
    THEN removeDuplicateChecksEntriesFromSelf(
             filterChecksWithMatchingNameAndAppId(checks, include).filteredChecks)
    ELSE IF Len(exclude) > 0 /\ Len(include) = 0
    THEN removeDuplicateChecksEntriesFromSelf(
             removeChecksWithMatchingNameAndAppId(checks, exclude))
    ELSE prev

\* variant: the missing selectors are kept as found, duplicates included
filterChecksMissingNoDedup(checks, include, exclude, prev) ==
    IF Len(include) > 0 /\ Len(exclude) = 0
    THEN filterChecksWithMatchingNameAndAppId(checks, include).missingChecks
    ELSE prev

\* missingChecks after filterChecks returns normally
filterChecksMissing(checks, include, exclude, prev) ==
    IF Len(include) > 0 /\ Len(exclude) = 0
    THEN removeDuplicateEntriesChecksInputsFromSelf(
             filterChecksWithMatchingNameAndAppId(checks, include).missingChecks)
    ELSE prev

\* the list iterate hands to determineChecksFailure
excludingOwnCheck(filtered, own) ==
    LET NotOwn(c) == own = <<>> \/ c.id # own[1].id
    IN  SelectSeq(filtered, NotOwn)

\* ---------------------------------------------------------------- messages
FetchErrorMessage == "Error getting all checks"
ResolutionErrorMessage == "Error extracting own check name"
ConfigurationErrorMessage ==
    "You cannot define both checks_include and checks_exclude inputs, please use only one of them"
ChecksFailedMessage ==
    "Some checks have failed or timed out, please check the workflow run summary to get the details"
MissingChecksMessage == "Failing due to missing checks"

\* ------------------------------------------------------------ Checks.run
\* variant: the limit counts retries after the first iteration
loopConditionExtraRetries(it, limit) == it <= limit

\* the do-while condition
loopCondition(it, limit) == it < limit

\* variant: a passing verdict does not leave the loop
afterIterateNoBreakOnPass(pollOn, pass) ==
    IF ~pollOn THEN "report" ELSE "sleep"

\* variant: the poll flag is not consulted
afterIterateIgnoringPoll(pollOn, pass) ==
    IF pass THEN "report" ELSE "sleep"

\* where the loop body goes once iterate has returned: out of the loop when
\* polling is off or the checks pass, to the sleep otherwise
afterIterate(pollOn, pass) ==
    IF ~pollOn THEN "report"
    ELSE IF pass THEN "report"
    ELSE "sleep"

\* an error thrown inside run reaches the catch of main, which fails the step
Abort(kind, message) ==
    /\ pc' = "aborted"
    /\ error' = kind
    /\ failed' = failed \cup {message}

\* ------------------------------------------------------------------- Init
Init ==
    /\ checksInclude \in IncludeLists
    /\ checksExclude \in ExcludeLists
    /\ treatSkippedAsPassed = FALSE
    /\ treatNeutralAsPassed = FALSE
    /\ failOnMissingChecks \in BOOLEAN
    /\ poll \in BOOLEAN
    /\ retries \in RetryLimits
    /\ canResolve \in BOOLEAN
    /\ allChecks = <<>>
    /\ filteredChecks = <<>>
    /\ allChecksPassed = FALSE
    /\ missingChecks = <<>>
    /\ ownCheck = <<>>
    /\ iteration = 0
    /\ allChecksPass = FALSE
    /\ missingChecksRun = <<>>
    /\ filteredChecksExcludingOwnCheck = <<>>
    /\ pc = "main"
    /\ error = "none"
    /\ fetches = 0
    /\ lookups = 0
    /\ sleeps = 0
    /\ verdicts = 0
    /\ failed = {}
    /\ warned = FALSE
    /\ delayTimer = "idle"

\* ---------------------------------------------------------------- actions
\* main.run starts the startup delay without awaiting it, builds the Checks
\* object from the inputs and calls its run
MainStart ==
    /\ pc = "main"
    /\ delayTimer' = "pending"
    /\ pc' = "loop"
    /\ UNCHANGED << inputs, fields, locals, observed >>

\* the startup delay runs out; the timer can fire only once the run has
\* suspended, and its first suspension is the await of the first fetch
DelayElapses ==
    /\ delayTimer = "pending"
    /\ fetches >= 1
    /\ delayTimer' = "elapsed"
    /\ UNCHANGED << inputs, fields, locals, pc, observed >>

\* variant: a failed fetch is swallowed and the loop goes on to its sleep
IterateFetchErrorRetried ==
    /\ pc = "loop"
    /\ iteration' = iteration + 1
    /\ fetches' = fetches + 1
    /\ error' = "fetch"
    /\ pc' = "sleep"
    /\ UNCHANGED << delayTimer, inputs, fields, allChecksPass, missingChecksRun,
                    filteredChecksExcludingOwnCheck, lookups, sleeps, verdicts,
                    failed, warned >>

\* an iteration whose fetchAllChecks throws
IterateFetchError ==
    /\ pc = "loop"
    /\ iteration' = iteration + 1
    /\ fetches' = fetches + 1
    /\ Abort("fetch", FetchErrorMessage)
    /\ UNCHANGED << delayTimer, inputs, fields, allChecksPass, missingChecksRun,
                    filteredChecksExcludingOwnCheck, lookups, sleeps, verdicts, warned >>

\* an iteration whose filterChecks fails to resolve the own check name
IterateResolutionError ==
    /\ pc = "loop"
    /\ ownCheck = <<>>
    /\ ~canResolve
    /\ \E raw \in RawLists : allChecks' = raw
    /\ iteration' = iteration + 1
    /\ fetches' = fetches + 1
    /\ lookups' = lookups + 1
    /\ Abort("resolution", ResolutionErrorMessage)
    /\ UNCHANGED << delayTimer, inputs, filteredChecks, allChecksPassed, missingChecks, ownCheck,
                    allChecksPass, missingChecksRun, filteredChecksExcludingOwnCheck,
                    sleeps, verdicts, warned >>

\* an iteration whose filterChecks rejects include and exclude both being set
IterateConfigurationError ==
    /\ pc = "loop"
    /\ ownCheck # <<>> \/ canResolve
    /\ ~checkOneOfTheChecksInputIsEmpty(checksInclude, checksExclude)
    /\ \E raw \in RawLists :
          /\ allChecks' = raw
          /\ ownCheck' = ownCheckLookup(ownCheck, raw)
    /\ iteration' = iteration + 1
    /\ fetches' = fetches + 1
    /\ lookups' = IF ownCheck = <<>> THEN lookups + 1 ELSE lookups
    /\ Abort("configuration", ConfigurationErrorMessage)
    /\ UNCHANGED << delayTimer, inputs, filteredChecks, allChecksPassed, missingChecks,
                    allChecksPass, missingChecksRun, filteredChecksExcludingOwnCheck,
                    sleeps, verdicts, warned >>

\* variant: run takes the result of iterate into its locals in the first
\* iteration only
IterateOutcomeOfFirst ==
    /\ pc = "loop"
    /\ ownCheck # <<>> \/ canResolve
    /\ checkOneOfTheChecksInputIsEmpty(checksInclude, checksExclude)
    /\ \E raw \in RawLists :
          LET own == ownCheckLookup(ownCheck, raw)
              filtered == filterChecksFiltered(raw, checksInclude, checksExclude, filteredChecks)
              missing == filterChecksMissing(raw, checksInclude, checksExclude, missingChecks)
              excluding == excludingOwnCheck(filtered, own)
              pass == determineChecksFailure(excluding, treatSkippedAsPassed, treatNeutralAsPassed)
          IN  /\ allChecks' = raw
              /\ ownCheck' = own
              /\ filteredChecks' = filtered
              /\ missingChecks' = missing
              /\ allChecksPassed' = pass
              /\ allChecksPass' = (IF iteration = 0 THEN pass ELSE allChecksPass)
              /\ missingChecksRun' = (IF iteration = 0 THEN missing ELSE missingChecksRun)
              /\ filteredChecksExcludingOwnCheck' =
                     (IF iteration = 0 THEN excluding ELSE filteredChecksExcludingOwnCheck)
              /\ pc' = afterIterate(poll, pass)
    /\ iteration' = iteration + 1
    /\ fetches' = fetches + 1
    /\ lookups' = IF ownCheck = <<>> THEN lookups + 1 ELSE lookups
    /\ verdicts' = verdicts + 1
    /\ UNCHANGED << delayTimer, inputs, error, sleeps, failed, warned >>

\* an iteration that completes: fetch, filter, verdict, then the loop's breaks
Iterate ==
    /\ pc = "loop"
    /\ ownCheck # <<>> \/ canResolve
    /\ checkOneOfTheChecksInputIsEmpty(checksInclude, checksExclude)
    /\ \E raw \in RawLists :
          LET own == ownCheckLookup(ownCheck, raw)
              filtered == filterChecksFiltered(raw, checksInclude, checksExclude, filteredChecks)
              missing == filterChecksMissing(raw, checksInclude, checksExclude, missingChecks)
              excluding == excludingOwnCheck(filtered, own)
              pass == determineChecksFailure(excluding, treatSkippedAsPassed, treatNeutralAsPassed)
          IN  /\ allChecks' = raw
              /\ ownCheck' = own
              /\ filteredChecks' = filtered
              /\ missingChecks' = missing
              /\ allChecksPassed' = pass
              /\ allChecksPass' = pass
              /\ missingChecksRun' = missing
              /\ filteredChecksExcludingOwnCheck' = excluding
              /\ pc' = afterIterate(poll, pass)
    /\ iteration' = iteration + 1
    /\ fetches' = fetches + 1
    /\ lookups' = IF ownCheck = <<>> THEN lookups + 1 ELSE lookups
    /\ verdicts' = verdicts + 1
    /\ UNCHANGED << delayTimer, inputs, error, sleeps, failed, warned >>

\* the sleep between iterations, then the do-while condition
Sleep ==
    /\ pc = "sleep"
    /\ sleeps' = sleeps + 1
    /\ pc' = IF loopCondition(iteration, retries) THEN "loop" ELSE "report"
    /\ UNCHANGED << delayTimer, inputs, fields, locals, error, fetches, lookups, verdicts, failed, warned >>

\* variant: a missing check fails the step whatever failOnMissingChecks says
ReportFailsOnMissingAlways ==
    /\ pc = "report"
    /\ failed' = failed
          \cup (IF ~allChecksPass THEN {ChecksFailedMessage} ELSE {})
          \cup (IF Len(missingChecksRun) > 0 THEN {MissingChecksMessage} ELSE {})
    /\ warned' = (Len(missingChecksRun) > 0)
    /\ pc' = "done"
    /\ UNCHANGED << delayTimer, inputs, fields, locals, error, fetches, lookups, sleeps, verdicts >>

\* the end of run: the summary, then failing the step and warning
Report ==
    /\ pc = "report"
    /\ failed' = failed
          \cup (IF ~allChecksPass THEN {ChecksFailedMessage} ELSE {})
          \cup (IF Len(missingChecksRun) > 0 /\ failOnMissingChecks
                THEN {MissingChecksMessage} ELSE {})
    /\ warned' = (Len(missingChecksRun) > 0)
    /\ pc' = "done"
    /\ UNCHANGED << delayTimer, inputs, fields, locals, error, fetches, lookups, sleeps, verdicts >>

Next ==
    \/ MainStart
    \/ DelayElapses
    \/ IterateFetchError
    \/ IterateResolutionError
    \/ IterateConfigurationError
    \/ Iterate
    \/ Sleep
    \/ Report

Spec == Init /\ [][Next]_vars

\* every fetch, sleep and timer returns: a step that can be taken is taken
SpecFair == Spec /\ WF_vars(Next)

\* --------------------------------------- determineChecksFailure on its own
\* a check as the verdict function reads it: any status with any conclusion
VerdictCheck(i, status, conclusion) ==
    [id |-> i, name |-> "build", app_id |-> OtherAppId,
     status |-> status, conclusion |-> conclusion]

InitVerdict ==
    /\ checksInclude = <<>>
    /\ checksExclude = <<>>
    /\ treatSkippedAsPassed \in BOOLEAN
    /\ treatNeutralAsPassed \in BOOLEAN
    /\ failOnMissingChecks = FALSE
    /\ poll = FALSE
    /\ retries = 1
    /\ canResolve = TRUE
    /\ allChecks = <<>>
    /\ filteredChecks = <<>>
    /\ allChecksPassed = FALSE
    /\ missingChecks = <<>>
    /\ ownCheck = <<>>
    /\ iteration = 0
    /\ allChecksPass = FALSE
    /\ missingChecksRun = <<>>
    /\ filteredChecksExcludingOwnCheck = <<>>
    /\ pc = "verdict"
    /\ error = "none"
    /\ fetches = 0
    /\ lookups = 0
    /\ sleeps = 0
    /\ verdicts = 0
    /\ failed = {}
    /\ warned = FALSE
    /\ delayTimer = "idle"

\* one more check in the list iterate is about to hand to the verdict function
VerdictInput ==
    /\ pc = "verdict"
    /\ Len(filteredChecksExcludingOwnCheck) < MaxVerdictLen
    /\ \E status \in Statuses, conclusion \in Conclusions :
          filteredChecksExcludingOwnCheck' =
              Append(filteredChecksExcludingOwnCheck,
                     VerdictCheck(Len(filteredChecksExcludingOwnCheck) + 1, status, conclusion))
    /\ UNCHANGED << delayTimer, inputs, fields, iteration, allChecksPass, missingChecksRun, pc, observed >>

\* iterate's call of determineChecksFailure on the list it built
VerdictApply ==
    /\ pc = "verdict"
    /\ allChecksPass' = determineChecksFailure(filteredChecksExcludingOwnCheck,
                                               treatSkippedAsPassed, treatNeutralAsPassed)
    /\ allChecksPassed' = allChecksPass'
    /\ verdicts' = verdicts + 1
    /\ pc' = "evaluated"
    /\ UNCHANGED << delayTimer, inputs, allChecks, filteredChecks, missingChecks, ownCheck,
                    iteration, missingChecksRun, filteredChecksExcludingOwnCheck,
                    error, fetches, lookups, sleeps, failed, warned >>

NextVerdict == VerdictInput \/ VerdictApply

SpecVerdict == InitVerdict /\ [][NextVerdict]_vars

\* ------------------------------------------------- filterChecks on its own
\* the check runs filterChecks is tried on: two that share name and app, one
\* with that name from another app, one with another name
FilterRuns ==
    << [name |-> "build", app_id |-> OtherAppId],
       [name |-> "build", app_id |-> OtherAppId],
       [name |-> "build", app_id |-> GitHubActionsBotId],
       [name |-> "lint",  app_id |-> OtherAppId] >>

FilterCheck(i) ==
    [id |-> i, name |-> FilterRuns[i].name, app_id |-> FilterRuns[i].app_id,
     status |-> COMPLETED, conclusion |-> SUCCESS]

\* selectors: exact app, any app, a name no run has, an app no "lint" run has
FilterSelectors ==
    { SelBuild,
      [name |-> "build", app_id |-> AnyAppId],
      SelDeploy,
      [name |-> "lint", app_id |-> GitHubActionsBotId] }

InitFilter ==
    /\ checksInclude = <<>>
    /\ checksExclude = <<>>
    /\ treatSkippedAsPassed = FALSE
    /\ treatNeutralAsPassed = FALSE
    /\ failOnMissingChecks = FALSE
    /\ poll = FALSE
    /\ retries = 1
    /\ canResolve = TRUE
    /\ allChecks = <<>>
    /\ filteredChecks = <<>>
    /\ allChecksPassed = FALSE
    /\ missingChecks = <<>>
    /\ ownCheck = <<>>
    /\ iteration = 0
    /\ allChecksPass = FALSE
    /\ missingChecksRun = <<>>
    /\ filteredChecksExcludingOwnCheck = <<>>
    /\ pc = "filter"
    /\ error = "none"
    /\ fetches = 0
    /\ lookups = 0
    /\ sleeps = 0
    /\ verdicts = 0
    /\ failed = {}
    /\ warned = FALSE
    /\ delayTimer = "idle"

\* one more check run in the fetched list, in the order of the runs' ids
FilterInputCheck ==
    /\ pc = "filter"
    /\ Len(allChecks) < MaxFilterChecks
    /\ \E i \in 1..Len(FilterRuns) :
          /\ IF allChecks = <<>> THEN TRUE ELSE allChecks[Len(allChecks)].id < i
          /\ allChecks' = Append(allChecks, FilterCheck(i))
    /\ UNCHANGED << delayTimer, inputs, filteredChecks, allChecksPassed, missingChecks,
                    ownCheck, locals, pc, observed >>

\* one more selector in checks_include
FilterInputInclude ==
    /\ pc = "filter"
    /\ Len(checksInclude) < MaxSelectors
    /\ \E sel \in FilterSelectors : checksInclude' = Append(checksInclude, sel)
    /\ UNCHANGED << delayTimer, checksExclude, treatSkippedAsPassed, treatNeutralAsPassed,
                    failOnMissingChecks, poll, retries, canResolve,
                    fields, locals, pc, observed >>

\* one more selector in checks_exclude
FilterInputExclude ==
    /\ pc = "filter"
    /\ Len(checksExclude) < MaxSelectors
    /\ \E sel \in FilterSelectors : checksExclude' = Append(checksExclude, sel)
    /\ UNCHANGED << delayTimer, checksInclude, treatSkippedAsPassed, treatNeutralAsPassed,
                    failOnMissingChecks, poll, retries, canResolve,
                    fields, locals, pc, observed >>

\* filterChecks returning normally
FilterApply ==
    /\ pc = "filter"
    /\ checkOneOfTheChecksInputIsEmpty(checksInclude, checksExclude)
    /\ ownCheck' = ownCheckLookup(ownCheck, allChecks)
    /\ lookups' = lookups + 1
    /\ filteredChecks' =
           filterChecksFiltered(allChecks, checksInclude, checksExclude, filteredChecks)
    /\ missingChecks' =
           filterChecksMissing(allChecks, checksInclude, checksExclude, missingChecks)
    /\ pc' = "filtered"
    /\ UNCHANGED << delayTimer, inputs, allChecks, allChecksPassed, locals,
                    error, fetches, sleeps, verdicts, failed, warned >>

\* filterChecks throwing because include and exclude are both set
FilterApplyConfigurationError ==
    /\ pc = "filter"
    /\ ~checkOneOfTheChecksInputIsEmpty(checksInclude, checksExclude)
    /\ ownCheck' = ownCheckLookup(ownCheck, allChecks)
    /\ lookups' = lookups + 1
    /\ Abort("configuration", ConfigurationErrorMessage)
    /\ UNCHANGED << delayTimer, inputs, allChecks, filteredChecks, allChecksPassed,
                    missingChecks, locals, fetches, sleeps, verdicts, warned >>

NextFilter ==
    \/ FilterInputCheck
    \/ FilterInputInclude
    \/ FilterInputExclude
    \/ FilterApply
    \/ FilterApplyConfigurationError

SpecFilter == InitFilter /\ [][NextFilter]_vars

\* ================================================================= claims

\* C1: with polling enabled and a retry limit N >= 1 a run performs at most N
\* fetches, and once an iteration has computed allChecksPass = TRUE no further
\* fetch is performed, whatever retry budget remains.
C1_AtMostNFetchesStopOnPass ==
    /\ [](poll /\ retries >= 1 => fetches <= retries)
    /\ [][poll /\ allChecksPass => fetches' = fetches]_vars

\* a run that passed at its second iteration with a third still allowed
C1_Witness ==
    poll /\ retries = 3 /\ allChecksPass /\ fetches = 2 /\ pc = "done"

\* C2: with polling disabled a run performs exactly one fetch (one iteration)
\* and is then at its end, for every verdict and every retry limit; it never
\* sleeps.
C2_PollDisabledOneFetch ==
    ~poll =>
        \/ pc \in {"main", "loop"} /\ fetches = 0 /\ iteration = 0
        \/ /\ pc \in {"report", "done", "aborted"}
           /\ fetches = 1 /\ iteration = 1 /\ sleeps = 0

\* a run without polling that ended failing after one fetch, limit 3
C2_Witness ==
    ~poll /\ retries = 3 /\ pc = "done" /\ ~allChecksPass /\ fetches = 1

\* C3: with polling enabled, a retry limit N >= 1 and a false verdict at every
\* iteration, the run leaves the loop after exactly N iterations (N fetches,
\* N verdicts) and ends with the false verdict, failing the step.
C3_ExhaustedAfterNIterations ==
    poll /\ retries >= 1 /\ pc \in {"report", "done"} /\ ~allChecksPass =>
        /\ iteration = retries
        /\ fetches = retries
        /\ verdicts = retries
        /\ pc = "done" => ChecksFailedMessage \in failed

\* a run that used up a limit of 3 without passing
C3_Witness ==
    poll /\ retries = 3 /\ pc = "done" /\ ~allChecksPass /\ fetches = 3

\* C4: when include and exclude are both non-empty the run aborts with the
\* configuration error and no fetch of checks precedes the abort.
C4_NoFetchBeforeConfigurationError ==
    Len(checksInclude) > 0 /\ Len(checksExclude) > 0 =>
        /\ pc \notin {"report", "done"}
        /\ error = "configuration" => fetches = 0

\* C5: a failure of the fetch at any iteration aborts the whole run: the run
\* ends with the fetch error and no verdict for that iteration, and no further
\* fetch, sleep or verdict follows even when retry budget remains.
C5_FetchFailureAborts ==
    /\ [](error = "fetch" =>
            /\ pc = "aborted"
            /\ failed = {FetchErrorMessage}
            /\ verdicts = fetches - 1
            /\ sleeps = fetches - 1)
    /\ [][error = "fetch" =>
            fetches' = fetches /\ sleeps' = sleeps /\ verdicts' = verdicts]_vars

\* a fetch that failed at the second iteration of three allowed
C5_Witness ==
    error = "fetch" /\ poll /\ retries = 3 /\ fetches = 2 /\ pc = "aborted"

C7_PassOnlyIfAllCompleted ==
    pc = "evaluated" /\ allChecksPass =>
        \A i \in 1..Len(filteredChecksExcludingOwnCheck) :
            filteredChecksExcludingOwnCheck[i].status = COMPLETED

\* C8: in every iteration the list handed to the verdict function holds no
\* check whose name is the resolved own check name and whose app is the
\* GitHub Actions app.
C8_NoOwnCheckInVerdictInput ==
    \A i \in 1..Len(filteredChecksExcludingOwnCheck) :
        ~ /\ filteredChecksExcludingOwnCheck[i].name = OwnCheckName
          /\ filteredChecksExcludingOwnCheck[i].app_id = GitHubActionsBotId

\* C9: when resolving the own check name fails the run does not abort: it
\* still completes with a verdict.
C9_ResolutionFailureNotFatal ==
    ~canResolve => error # "resolution"

C11_OutcomeFreshFromRawList ==
    verdicts >= 1 =>
        LET own == ownCheckLookup(<<>>, allChecks)
            filtered == filterChecksFiltered(allChecks, checksInclude, checksExclude, <<>>)
            excluding == excludingOwnCheck(filtered, own)
        IN  /\ filteredChecksExcludingOwnCheck = excluding
            /\ missingChecksRun =
                   filterChecksMissing(allChecks, checksInclude, checksExclude, <<>>)
            /\ allChecksPass =
                   determineChecksFailure(excluding, treatSkippedAsPassed, treatNeutralAsPassed)

\* C12: what run surfaces after the loop (filtered list, missing checks, pass
\* boolean) is the outcome of the last iteration performed: the filtered list
\* is made of checks of the last fetched list, and the three values are the
\* ones the last iterate left in the object.
C12_SurfacedOutcomeIsLast ==
    pc \in {"report", "done"} =>
        LET NotOwn(c) == ownCheck = <<>> \/ c.id # ownCheck[1].id
        IN  /\ allChecksPass = allChecksPassed
            /\ missingChecksRun = missingChecks
            /\ filteredChecksExcludingOwnCheck = SelectSeq(filteredChecks, NotOwn)
            /\ \A i \in 1..Len(filteredChecksExcludingOwnCheck) :
                  \E j \in 1..Len(allChecks) :
                      allChecks[j] = filteredChecksExcludingOwnCheck[i]

\* a run that ended at its third iteration and surfaces a check that only the
\* third list reports as completed
C12_Witness ==
    /\ pc = "done"
    /\ iteration = 3
    /\ allChecksPass
    /\ Len(filteredChecksExcludingOwnCheck) = 1
    /\ filteredChecksExcludingOwnCheck[1].status = COMPLETED

\* C13: with an empty include list and an empty exclude list, after every
\* iteration the filtered list is the raw list just fetched (same checks, same
\* order, nothing dropped or collapsed) and the missing list is empty.
C13_NoFiltersIdentity ==
    checksInclude = <<>> /\ checksExclude = <<>> /\ verdicts >= 1 =>
        /\ filteredChecks = allChecks
        /\ missingChecks = <<>>
        /\ missingChecksRun = <<>>

\* a second iteration without filters over a list of two checks that share
\* name and app
C13_Witness ==
    /\ checksInclude = <<>> /\ checksExclude = <<>>
    /\ iteration = 2 /\ verdicts = 2
    /\ Len(allChecks) = 2
    /\ allChecks[1].name = allChecks[2].name
    /\ allChecks[1].app_id = allChecks[2].app_id
    /\ Len(filteredChecks) = 2

\* C14: in include mode every include selector that no check of the raw list
\* matches by (name, app id) is in missingChecks exactly once, however often it
\* is listed, and no selector that some check matches is in missingChecks.
C14_MissingOncePerUnmatchedSelector ==
    pc = "filtered" /\ Len(checksInclude) > 0 /\ Len(checksExclude) = 0 =>
        /\ \A k \in 1..Len(checksInclude) :
              LET sel == checksInclude[k]
                  matched == \E j \in 1..Len(allChecks) :
                                /\ allChecks[j].name = sel.name
                                /\ (sel.app_id = AnyAppId \/ allChecks[j].app_id = sel.app_id)
                  times == Cardinality({ m \in 1..Len(missingChecks) : missingChecks[m] = sel })
              IN  times = (IF matched THEN 0 ELSE 1)
        /\ \A m \in 1..Len(missingChecks) :
              \E k \in 1..Len(checksInclude) : checksInclude[k] = missingChecks[m]

\* a selector listed twice that nothing matches, over a non-empty raw list
C14_Witness ==
    /\ pc = "filtered"
    /\ checksInclude = <<SelDeploy, SelDeploy>>
    /\ Len(allChecks) = 2
    /\ missingChecks = <<SelDeploy>>

C16_NoSleepAfterFinalIteration ==
    retries >= 1 /\ pc \in {"report", "done"} => sleeps = fetches - 1

\* C17: the first fetch of checks is performed only after the startup delay
\* has fully elapsed.
C17_FirstFetchAfterDelay ==
    fetches >= 1 => delayTimer = "elapsed"

\* C18: after the loop has ended without an error the step is marked failed
\* exactly when the final allChecksPass is false, or the final missing list is
\* non-empty and failOnMissingChecks is set; a non-empty missing list always
\* gives the warning, and nothing else does.
C18_FailedIffNotPassOrMissing ==
    pc = "done" =>
        /\ (failed # {}) <=>
              \/ ~allChecksPass
              \/ Len(missingChecksRun) > 0 /\ failOnMissingChecks
        /\ warned <=> Len(missingChecksRun) > 0

\* a passing run with a missing check and failOnMissingChecks unset: warned,
\* not failed
C18_Witness ==
    /\ pc = "done"
    /\ allChecksPass
    /\ Len(missingChecksRun) > 0
    /\ ~failOnMissingChecks
    /\ warned
    /\ failed = {}

\* C19: when the list handed to the verdict function is empty the verdict is
\* true and the loop ends at that iteration, even with polling enabled and
\* retry budget remaining.
C19_EmptyListPassesAndStops ==
    verdicts >= 1 /\ filteredChecksExcludingOwnCheck = <<>> =>
        /\ allChecksPass
        /\ pc \in {"report", "done"}
        /\ sleeps = fetches - 1

\* every include selector missing, polling on, two iterations still allowed
C19_Witness ==
    /\ poll /\ retries = 3
    /\ fetches = 1
    /\ pc = "done"
    /\ Len(checksInclude) > 0
    /\ Len(allChecks) > 0
    /\ filteredChecksExcludingOwnCheck = <<>>
    /\ Len(missingChecksRun) > 0
    /\ allChecksPass

\* C20: provided each fetch and each sleep returns, every run reaches its end
\* (the report done, or an error abort) after at least one and at most
\* max(1, retries) iterations, for every retry limit, zero and negative ones
\* included.
C20_RunTerminates ==
    /\ <>(pc \in {"done", "aborted"})
    /\ [](pc \in {"done", "aborted"} =>
            /\ iteration >= 1
            /\ iteration <= (IF retries > 1 THEN retries ELSE 1)
            /\ fetches = iteration)

\* a polling run with a negative retry limit that ended after one iteration
C20_Witness ==
    poll /\ retries < 0 /\ ~allChecksPass /\ pc = "done" /\ iteration = 1

====
